---- MODULE Spec2Model ----
(***************************************************************************)
(* Model of src/app.py: the /mix-audio handler (mix_audio), together with  *)
(* the handlers that share the temp directory with it (download_audio,     *)
(* extract_audio, shutdown_event).                                         *)
(*                                                                         *)
(* The handlers are `async def` bodies without any await, so the event     *)
(* loop runs one handler at a time from entry to response; pc is the       *)
(* position of the one mix_audio call in progress.                         *)
(*                                                                         *)
(* Durations are counted in whole seconds.  A file is named by the pair    *)
(* <<prefix, unique_id>>, standing for TEMP_DIR/<prefix>_<unique_id>.mp3.  *)
(* The toolkit (MoviePy, ffmpeg) is external: each invocation either       *)
(* completes or raises, and a failed ffmpeg/encode run may or may not      *)
(* leave its output file behind.  os.remove of an existing file succeeds.  *)
(* Message texts are written without accents.                              *)
(***************************************************************************)
EXTENDS Integers, Sequences, FiniteSets, TLC

VARIABLES
    fs,         \* names of the files that exist in TEMP_DIR
    fs0,        \* the files named by the request, and the output of its
                \* identifier, that existed when it arrived
    pc,         \* position in mix_audio: "idle", a stage name, "except", "done"
    req,        \* the AudioMixRequest being handled
    media,      \* durations of the media the request's two sources denote
    unique_id,  \* str(uuid.uuid4())[:8] of the request (0: not generated)
    loc,        \* local variables of mix_audio
    calls,      \* toolkit invocations of the request, in order
    fileOps,    \* files the handler itself wrote, copied or removed
    exc,        \* exception caught by the inner except, with where it was raised
    resp,       \* response of the request
    dl          \* response of the last GET /download since the request

vars == <<fs, fs0, pc, req, media, unique_id, loc, calls, fileOps, exc, resp, dl>>

----------------------------------------------------------------------------
(* Bounds of the model *)

MaxId == 2          \* number of distinct 8-character identifiers drawn
MaxNarration == 10  \* longest narration, in seconds (SpecPlan)
MaxMusic == 30      \* longest music, in seconds (SpecPlan)
MaxWait == 3        \* largest wait_music (SpecPlan)
MaxFade == 4        \* largest fade_end_at (SpecPlan)

Ids == 1..MaxId

----------------------------------------------------------------------------
(* Program constants *)

fadeout_duration == 3      \* seconds
background_volume == 30    \* percent of the original volume

----------------------------------------------------------------------------
(* File names *)

NoName == <<"", 0>>
narration_path(id) == <<"narration", id>>
music_path(id) == <<"music", id>>
output_path(id) == <<"mixed", id>>
temp_extended_music(id) == <<"extended_music", id>>
silence_path(id) == <<"silence", id>>
music_with_fadeout_path(id) == <<"music_fadeout", id>>
music_without_fadeout_path(id) == <<"music_no_fadeout", id>>
extracted_audio_path(id) == <<"video", id>>

(* Names a client may put in `audio` / `music`: an extracted audio file, *)
(* the output of an earlier mix, a resolved narration file.              *)
UserNames == { output_path(1), narration_path(1) }

(* A source as the request carries it: the base64 field ("none" when     *)
(* absent or empty, else whether b64decode accepts it) and the filename. *)
Sources ==
    { [b64 |-> b, name |-> NoName] : b \in {"none", "valid", "invalid"} }
    \cup { [b64 |-> "none", name |-> n] : n \in UserNames }
    \cup { [b64 |-> b, name |-> output_path(1)] : b \in {"valid", "invalid"} }

(* Requests and media of the service-level specification *)
Requests ==
    [audio : Sources, music : Sources, wait_music : {0}, fade_end_at : {0}]

Media == [narration : {1}, music : {2, 4}]

(* Requests and media of the pipeline-level specification *)
PlanRequests ==
    [audio : {[b64 |-> "valid", name |-> NoName]},
     music : {[b64 |-> "valid", name |-> NoName]},
     wait_music : (0 - 1)..MaxWait, fade_end_at : 0..MaxFade]

PlanMedia == [narration : 0..MaxNarration, music : 0..MaxMusic]

\* Python truthiness of an Optional[str] field
GivenB64(b64) == b64 # "none"
GivenName(name) == name # NoName

----------------------------------------------------------------------------
(* Pure pieces of mix_audio *)

\* line 460-461 with `or` between the two sources replaced by `and`
MissingSourceAnd(r) ==
    (~GivenName(r.audio.name) /\ ~GivenB64(r.audio.b64))
    /\ (~GivenName(r.music.name) /\ ~GivenB64(r.music.b64))

MissingSource(r) ==
    (~GivenName(r.audio.name) /\ ~GivenB64(r.audio.b64))
    \/ (~GivenName(r.music.name) /\ ~GivenB64(r.music.b64))

\* the base64 form used only when no filename is given
UseBase64Unnamed(src) == GivenB64(src.b64) /\ ~GivenName(src.name)

\* lines 478, 500: `if request.audio_base64:` comes before `elif request.audio:`
UseBase64(src) == GivenB64(src.b64)

\* os.path.exists skipped: every name is taken to exist
SourceExistsAlways(files, name) == TRUE

SourceExists(files, name) == name \in files

TotalDuration(wait_music, narration_duration, fade_end_at) ==
    wait_music + narration_duration + fade_end_at + fadeout_duration

\* fadeout_point that forgets fade_end_at
FadeoutPointNoDelay(wait_music, narration_duration, fade_end_at) ==
    wait_music + narration_duration

FadeoutPoint(wait_music, narration_duration, fade_end_at) ==
    wait_music + narration_duration + fade_end_at

\* loops_needed rounded up instead of truncated-plus-one
LoopsNeededCeil(total_duration, music_duration) ==
    (total_duration + music_duration - 1) \div music_duration

\* loops_needed without the + 1
LoopsNeededTrunc(total_duration, music_duration) ==
    total_duration \div music_duration

LoopsNeeded(total_duration, music_duration) ==
    (total_duration \div music_duration) + 1

SuccessCleanupPaths(id) ==
    { narration_path(id), music_path(id), silence_path(id),
      music_without_fadeout_path(id), music_with_fadeout_path(id) }

\* error cleanup that keeps the output
ErrorCleanupPathsNoOutput(id) == { narration_path(id), music_path(id) }

ErrorCleanupPaths(id) ==
    { narration_path(id), music_path(id), output_path(id) }

\* error cleanup that forgets the extended music
ErrorTempFilesNoExtended(id) ==
    { silence_path(id), music_with_fadeout_path(id),
      music_without_fadeout_path(id) }

ErrorTempFiles(id) ==
    { silence_path(id), music_with_fadeout_path(id),
      music_without_fadeout_path(id), temp_extended_music(id) }

(* Exceptions: the type and, for subprocess.CalledProcessError, the      *)
(* command (its str() shows the whole argv).  str() of a library error   *)
(* is the library's own text.                                            *)
CalledProcessError(cmd) == [type |-> "CalledProcessError", cmd |-> cmd]
ToolkitError == [type |-> "OSError", cmd |-> "none"]
ZeroDivisionError == [type |-> "ZeroDivisionError", cmd |-> "none"]
SameFileError == [type |-> "SameFileError", cmd |-> "none"]
FileNotFoundError == [type |-> "FileNotFoundError", cmd |-> "none"]
NoException == [type |-> "none", cmd |-> "none"]

\* detail that drops str(e)
PipelineErrorDetailBare(e) ==
    [prefix |-> "Erro ao processar audio", text |-> NoException]

PipelineErrorDetail(e) ==
    [prefix |-> "Erro ao processar audio", text |-> e]

ServerErrorDetail(e) == [prefix |-> "Erro do servidor", text |-> e]

HTTPException(status, detail) == [status |-> status, detail |-> detail]

Detail(prefix) == [prefix |-> prefix, text |-> NoException]

DownloadStatus(files, filename) ==
    IF filename \in files THEN 200 ELSE 404

----------------------------------------------------------------------------
(* State *)

NoRequest ==
    [audio |-> [b64 |-> "none", name |-> NoName],
     music |-> [b64 |-> "none", name |-> NoName],
     wait_music |-> 0, fade_end_at |-> 0]

NoMedia == [narration |-> 0, music |-> 0]

NoLocals ==
    [narration_duration |-> 0, music_duration |-> 0, total_duration |-> 0,
     loops_needed |-> 0, extended |-> FALSE, fadeout_point |-> 0]

NoResponse == [status |-> 0, detail |-> Detail("")]
NoStage == [stage |-> "none", e |-> NoException]
NoDownload == [filename |-> NoName, status |-> 0]

Init ==
    /\ fs = {}
    /\ fs0 = {}
    /\ pc = "idle"
    /\ req = NoRequest
    /\ media = NoMedia
    /\ unique_id = 0
    /\ loc = NoLocals
    /\ calls = <<>>
    /\ fileOps = 0
    /\ exc = NoStage
    /\ resp = NoResponse
    /\ dl = NoDownload

Between == pc = "idle"

Call(op, arg) == [op |-> op, arg |-> arg]

Raise(stage, e) ==
    /\ exc' = [stage |-> stage, e |-> e]
    /\ pc' = "except"

Respond(r) ==
    /\ resp' = r
    /\ pc' = "done"

Invoke(c) == calls' = Append(calls, c)

----------------------------------------------------------------------------
(* POST /mix-audio: validation and file names (lines 458-475) *)

NewRequest(r, m) ==
    /\ Between
    /\ req' = r
    /\ media' = m
    /\ loc' = NoLocals
    /\ calls' = <<>>
    /\ fileOps' = 0
    /\ exc' = NoStage
    /\ dl' = NoDownload
    /\ UNCHANGED fs

MixAudio(r, m, id) ==
    /\ NewRequest(r, m)
    /\ IF MissingSource(r)
       THEN /\ unique_id' = 0
            /\ fs0' = fs \cap {r.audio.name, r.music.name}
            /\ Respond(HTTPException(400, Detail("narracao e musica necessarias")))
       ELSE /\ unique_id' = id
            /\ fs0' = fs \cap {r.audio.name, r.music.name, output_path(id)}
            /\ resp' = NoResponse
            /\ pc' = "narration"

(* Resolution of one source into `target` (lines 477-497, 499-519): the  *)
(* base64 form wins; a stored name is looked up and copied; an           *)
(* HTTPException leaves through `except HTTPException: raise`, any other *)
(* exception through the outer `except Exception`.                       *)
ResolveSource(src, target, invalid, missing, next) ==
    /\ UNCHANGED <<fs0, req, media, unique_id, loc, calls, exc, dl>>
    /\ IF UseBase64(src)
       THEN IF src.b64 = "valid"
            THEN /\ fs' = fs \cup {target}
                 /\ fileOps' = fileOps + 1
                 /\ pc' = next
                 /\ resp' = resp
            ELSE /\ UNCHANGED <<fs, fileOps>>
                 /\ Respond(HTTPException(400, Detail(invalid)))
       ELSE IF GivenName(src.name)
            THEN IF ~SourceExists(fs, src.name)
                 THEN /\ UNCHANGED <<fs, fileOps>>
                      /\ Respond(HTTPException(404, Detail(missing)))
                 ELSE IF src.name = target \/ src.name \notin fs
                      THEN \* shutil.copy raises
                           /\ UNCHANGED <<fs, fileOps>>
                           /\ Respond(HTTPException(500, ServerErrorDetail(
                                  IF src.name = target THEN SameFileError
                                  ELSE FileNotFoundError)))
                      ELSE /\ fs' = fs \cup {target}
                           /\ fileOps' = fileOps + 1
                           /\ pc' = next
                           /\ resp' = resp
            ELSE /\ UNCHANGED <<fs, fileOps, resp>>
                 /\ pc' = next

ResolveNarration ==
    /\ pc = "narration"
    /\ ResolveSource(req.audio, narration_path(unique_id),
                     "Dados base64 invalidos para audio",
                     "Arquivo de audio nao encontrado", "music")

ResolveMusic ==
    /\ pc = "music"
    /\ ResolveSource(req.music, music_path(unique_id),
                     "Dados base64 invalidos para musica",
                     "Arquivo de musica nao encontrado", "load")

----------------------------------------------------------------------------
(* The mix pipeline (lines 521-637).  A stage that raises goes to the    *)
(* inner `except Exception` (lines 639-662).                             *)

\* the final encode moved after the removal of the intermediates
StageAfterCleanupFirst(stage) ==
    CASE stage = "load" -> "plan"
      [] stage = "loop" -> "gain"
      [] stage = "gain" -> "silence"
      [] stage = "silence" -> "concat"
      [] stage = "concat" -> "prefade"
      [] stage = "prefade" -> "fadeout"
      [] stage = "fadeout" -> "mix"
      [] stage = "mix" -> "cleanup"
      [] stage = "cleanup" -> "encode"
      [] stage = "encode" -> "respond"

(* The statement order of the inner try: the position reached when the  *)
(* statements of `stage` have completed.  After "plan" the loop stage is *)
(* entered only when the music is too short (ComputeDurations).          *)
StageAfter(stage) ==
    CASE stage = "load" -> "plan"
      [] stage = "loop" -> "gain"
      [] stage = "gain" -> "silence"
      [] stage = "silence" -> "concat"
      [] stage = "concat" -> "prefade"
      [] stage = "prefade" -> "fadeout"
      [] stage = "fadeout" -> "mix"
      [] stage = "mix" -> "encode"
      [] stage = "encode" -> "cleanup"
      [] stage = "cleanup" -> "respond"

Stage(stage) ==
    /\ pc = stage
    /\ UNCHANGED <<fs0, req, media, unique_id, dl>>

Pipeline(stage) ==
    /\ Stage(stage)
    /\ UNCHANGED <<fileOps, resp>>

\* lines 523-524: mp.AudioFileClip on the two resolved files
LoadClips ==
    /\ Pipeline("load")
    /\ UNCHANGED <<fs, loc>>
    /\ \/ /\ Invoke(Call("load_narration", <<>>))
          /\ Raise("load", ToolkitError)
       \/ /\ narration_path(unique_id) \in fs
          /\ calls' = calls \o <<Call("load_narration", <<>>),
                                  Call("load_music", <<>>)>>
          /\ Raise("load", ToolkitError)
       \/ /\ narration_path(unique_id) \in fs
          /\ music_path(unique_id) \in fs
          /\ calls' = calls \o <<Call("load_narration", <<>>),
                                  Call("load_music", <<>>)>>
          /\ pc' = StageAfter("load")
          /\ exc' = exc

\* lines 526-536: the durations, and loops_needed when the music is short
ComputeDurations ==
    /\ Pipeline("plan")
    /\ UNCHANGED <<fs, calls>>
    /\ LET narration_duration == media.narration
           total_duration == TotalDuration(req.wait_music, narration_duration,
                                           req.fade_end_at)
           durations == [loc EXCEPT !.narration_duration = narration_duration,
                                    !.music_duration = media.music,
                                    !.total_duration = total_duration]
       IN IF media.music < total_duration
          THEN IF media.music = 0
               THEN /\ loc' = [durations EXCEPT !.extended = TRUE]
                    /\ Raise("loop", ZeroDivisionError)
               ELSE /\ loc' = [durations EXCEPT
                                 !.extended = TRUE,
                                 !.loops_needed =
                                     LoopsNeeded(total_duration, media.music)]
                    /\ pc' = "loop"
                    /\ exc' = exc
          ELSE /\ loc' = durations
               /\ pc' = StageAfter("loop")
               /\ exc' = exc

\* lines 538-552: ffmpeg -stream_loop into extended_<music_filename>, reload
LoopExtend ==
    /\ Pipeline("loop")
    /\ LET cmd == Call("stream_loop", <<loc.loops_needed - 1>>)
       IN \/ /\ Invoke(cmd)
             /\ \E left \in BOOLEAN :
                   fs' = IF left THEN fs \cup {temp_extended_music(unique_id)}
                         ELSE fs
             /\ loc' = loc
             /\ Raise("loop", CalledProcessError("stream_loop"))
          \/ /\ calls' = calls \o <<cmd, Call("load_extended", <<>>)>>
             /\ fs' = fs \cup {temp_extended_music(unique_id)}
             /\ \/ /\ loc' = loc
                   /\ Raise("loop", ToolkitError)
                \/ /\ loc' = [loc EXCEPT !.music_duration =
                                   loc.loops_needed * media.music]
                   /\ pc' = StageAfter("loop")
                   /\ exc' = exc

\* lines 554-559: volumex(background_volume), subclip(0, total_duration)
GainAndTrim ==
    /\ Pipeline("gain")
    /\ UNCHANGED fs
    /\ \/ /\ Invoke(Call("volumex", <<background_volume>>))
          /\ loc' = loc
          /\ Raise("gain", ToolkitError)
       \/ /\ calls' = calls \o <<Call("volumex", <<background_volume>>),
                                  Call("subclip", <<0, loc.total_duration>>)>>
          /\ \/ /\ loc' = loc
                /\ Raise("trim", ToolkitError)
             \/ /\ loc' = [loc EXCEPT !.music_duration = loc.total_duration]
                /\ pc' = StageAfter("gain")
                /\ exc' = exc

\* lines 561-571: ffmpeg anullsrc of wait_music seconds into silence_<id>
SynthesizeSilence ==
    /\ Pipeline("silence")
    /\ UNCHANGED loc
    /\ Invoke(Call("anullsrc", <<req.wait_music>>))
    /\ \/ /\ \E left \in BOOLEAN :
                fs' = IF left THEN fs \cup {silence_path(unique_id)} ELSE fs
          /\ Raise("silence", CalledProcessError("anullsrc"))
       \/ /\ fs' = fs \cup {silence_path(unique_id)}
          /\ pc' = StageAfter("silence")
          /\ exc' = exc

\* lines 573-575: load the silence, concatenate silence + narration
ConcatenateNarration ==
    /\ Pipeline("concat")
    /\ UNCHANGED <<fs, loc>>
    /\ \/ /\ Invoke(Call("load_silence", <<>>))
          /\ Raise("concat", ToolkitError)
       \/ /\ calls' = calls \o <<Call("load_silence", <<>>),
                                  Call("concatenate", <<>>)>>
          /\ \/ Raise("concat", ToolkitError)
             \/ pc' = StageAfter("concat") /\ exc' = exc

\* lines 577-588: fadeout_point; write the gained, trimmed music to disk
WritePreFade ==
    /\ Pipeline("prefade")
    /\ loc' = [loc EXCEPT !.fadeout_point =
                   FadeoutPoint(req.wait_music, loc.narration_duration,
                                req.fade_end_at)]
    /\ Invoke(Call("write_no_fadeout", <<>>))
    /\ \/ /\ \E left \in BOOLEAN :
                fs' = IF left
                      THEN fs \cup {music_without_fadeout_path(unique_id)}
                      ELSE fs
          /\ Raise("fadeout", ToolkitError)
       \/ /\ fs' = fs \cup {music_without_fadeout_path(unique_id)}
          /\ pc' = StageAfter("prefade")
          /\ exc' = exc

\* lines 590-597: ffmpeg afade=t=out:st=fadeout_point:d=fadeout_duration
ApplyFadeout ==
    /\ Pipeline("fadeout")
    /\ UNCHANGED loc
    /\ Invoke(Call("afade", <<loc.fadeout_point, fadeout_duration>>))
    /\ \/ /\ \E left \in BOOLEAN :
                fs' = IF left
                      THEN fs \cup {music_with_fadeout_path(unique_id)}
                      ELSE fs
          /\ Raise("fadeout", CalledProcessError("afade"))
       \/ /\ fs' = fs \cup {music_with_fadeout_path(unique_id)}
          /\ pc' = StageAfter("fadeout")
          /\ exc' = exc

\* lines 599-604: reload, CompositeAudioClip, set_duration(total_duration)
OverlayMix ==
    /\ Pipeline("mix")
    /\ UNCHANGED <<fs, loc>>
    /\ \/ /\ Invoke(Call("load_fadeout", <<>>))
          /\ Raise("fadeout", ToolkitError)
       \/ /\ calls' = calls \o <<Call("load_fadeout", <<>>),
                                  Call("composite", <<>>),
                                  Call("set_duration", <<loc.total_duration>>)>>
          /\ \/ Raise("mix", ToolkitError)
             \/ pc' = StageAfter("mix") /\ exc' = exc

\* lines 606-607: write_audiofile(output_path)
EncodeOutput ==
    /\ Pipeline("encode")
    /\ UNCHANGED loc
    /\ Invoke(Call("write_output", <<>>))
    /\ \/ /\ \E left \in BOOLEAN :
                fs' = IF left THEN fs \cup {output_path(unique_id)} ELSE fs
          /\ Raise("encode", ToolkitError)
       \/ /\ fs' = fs \cup {output_path(unique_id)}
          /\ pc' = StageAfter("encode")
          /\ exc' = exc

Existing(paths) == paths \cap fs

\* lines 609-623: remove the inputs and the intermediates that exist
SuccessCleanup ==
    /\ Stage("cleanup")
    /\ UNCHANGED <<loc, calls, exc, resp>>
    /\ LET gone == Existing(SuccessCleanupPaths(unique_id)
                     \cup (IF loc.extended
                           THEN {temp_extended_music(unique_id)} ELSE {}))
       IN /\ fs' = fs \ gone
          /\ fileOps' = fileOps + Cardinality(gone)
    /\ pc' = StageAfter("cleanup")

\* lines 625-637: read the output back and answer 200
ReadOutputAndRespond ==
    /\ Stage("respond")
    /\ UNCHANGED <<fs, loc, calls, fileOps>>
    /\ \/ /\ resp' = resp
          /\ Raise("respond", IF output_path(unique_id) \in fs
                               THEN ToolkitError ELSE FileNotFoundError)
       \/ /\ output_path(unique_id) \in fs
          /\ exc' = exc
          /\ Respond([status |-> 200,
                      detail |-> [prefix |-> "download_url",
                                  text |-> NoException]])

\* lines 639-662: remove inputs, output and intermediates, answer 500
ExceptHandler ==
    /\ Stage("except")
    /\ UNCHANGED <<loc, calls, exc>>
    /\ LET gone == Existing(ErrorCleanupPaths(unique_id)
                            \cup ErrorTempFiles(unique_id))
       IN /\ fs' = fs \ gone
          /\ fileOps' = fileOps + Cardinality(gone)
    /\ Respond(HTTPException(500, PipelineErrorDetail(exc.e)))

\* the handler has returned; the next request finds only the files
Return ==
    /\ pc = "done"
    /\ pc' = "idle"
    /\ req' = NoRequest
    /\ media' = NoMedia
    /\ unique_id' = 0
    /\ loc' = NoLocals
    /\ calls' = <<>>
    /\ fileOps' = 0
    /\ exc' = NoStage
    /\ resp' = NoResponse
    /\ dl' = NoDownload
    /\ fs0' = {}
    /\ UNCHANGED fs

----------------------------------------------------------------------------
(* The other handlers that touch TEMP_DIR *)

\* GET /download/{filename} (lines 200-210)
DownloadAudio(filename) ==
    /\ \/ pc = "idle"
       \/ pc = "done" /\ filename = output_path(unique_id)
    /\ dl' = [filename |-> filename, status |-> DownloadStatus(fs, filename)]
    /\ UNCHANGED <<fs, fs0, pc, req, media, unique_id, loc, calls, fileOps,
                   exc, resp>>

(* POST /extract-audio (lines 130-198) with the default filename: the    *)
(* video file <id>_video is removed on both paths; the audio file        *)
(* <id>_video.mp3 stays on success and may stay after a failed encode.   *)
ExtractAudio(id, left) ==
    /\ pc = "idle"
    /\ fs' = IF left THEN fs \cup {extracted_audio_path(id)} ELSE fs
    /\ UNCHANGED <<fs0, pc, req, media, unique_id, loc, calls, fileOps, exc,
                   resp, dl>>

\* shutdown_event (lines 405-412): rmtree(TEMP_DIR), makedirs
ShutdownEvent ==
    /\ pc = "idle"
    /\ fs' = {}
    /\ UNCHANGED <<fs0, pc, req, media, unique_id, loc, calls, fileOps, exc,
                   resp, dl>>

----------------------------------------------------------------------------
(* Specifications *)

PipelineStep ==
    \/ LoadClips
    \/ ComputeDurations
    \/ LoopExtend
    \/ GainAndTrim
    \/ SynthesizeSilence
    \/ ConcatenateNarration
    \/ WritePreFade
    \/ ApplyFadeout
    \/ OverlayMix
    \/ EncodeOutput
    \/ SuccessCleanup
    \/ ReadOutputAndRespond
    \/ ExceptHandler

Next ==
    \/ \E r \in Requests, m \in Media, id \in Ids : MixAudio(r, m, id)
    \/ ResolveNarration
    \/ ResolveMusic
    \/ PipelineStep
    \/ Return
    \/ \E id \in Ids : DownloadAudio(output_path(id))
    \/ \E id \in Ids, left \in BOOLEAN : ExtractAudio(id, left)
    \/ ShutdownEvent

Spec == Init /\ [][Next]_vars

(* The pipeline alone, from the state in which both sources of one       *)
(* request have been resolved from base64 into an empty TEMP_DIR.        *)
InitPlan ==
    /\ fs = {narration_path(1), music_path(1)}
    /\ fs0 = {}
    /\ pc = "load"
    /\ req \in PlanRequests
    /\ media \in PlanMedia
    /\ unique_id = 1
    /\ loc = NoLocals
    /\ calls = <<>>
    /\ fileOps = 2
    /\ exc = NoStage
    /\ resp = NoResponse
    /\ dl = NoDownload

NextPlan == PipelineStep

SpecPlan == InitPlan /\ [][NextPlan]_vars

----------------------------------------------------------------------------
(* Properties *)

Intermediates(id) ==
    { temp_extended_music(id), silence_path(id),
      music_without_fadeout_path(id), music_with_fadeout_path(id) }

EnteredPipeline == calls # <<>>
PipelineFailed == exc.stage # "none"

NeitherForm(src) == src.b64 = "none" /\ src.name = NoName
OnlyName(src) == src.b64 = "none" /\ src.name # NoName

\* the durations as the planner's contract states them
PlannedTotal ==
    req.wait_music + media.narration + req.fade_end_at + 3
PlannedFadeStart == req.wait_music + media.narration + req.fade_end_at
CeilDiv(a, b) == (a + b - 1) \div b

Invoked(op) == { i \in DOMAIN calls : calls[i].op = op }

(* C1: when a request that entered the pipeline has been answered, none  *)
(* of its intermediate files (extended music, silence, pre-fade and      *)
(* post-fade music) exists, and the answer is a 200 or an error.         *)
C1_IntermediatesRemoved ==
    (pc = "done" /\ EnteredPipeline) =>
        /\ Intermediates(unique_id) \cap fs = {}
        /\ resp.status \in {200, 500}

\* a looped mix that failed in the ffmpeg fade pass, answered after the
\* two inputs and at least three intermediates were removed
C1_Witness ==
    /\ pc = "done"
    /\ resp.status = 500
    /\ exc.e = CalledProcessError("afade")
    /\ loc.loops_needed > 0
    /\ fileOps >= 7
    /\ Intermediates(unique_id) \cap fs = {}

(* C2: after a finished request neither its resolved narration file nor  *)
(* its resolved music file exists, whatever the outcome.                 *)
C2_InputsRemoved ==
    (pc = "done" /\ fileOps > 0) =>
        /\ narration_path(unique_id) \notin fs
        /\ music_path(unique_id) \notin fs

(* C3: a request whose pipeline failed is answered with an error, its    *)
(* output file does not exist afterwards and a download of it is a 404.  *)
C3_NoOutputAfterFailure ==
    (pc = "done" /\ PipelineFailed) =>
        /\ resp.status = 500
        /\ output_path(unique_id) \notin fs
        /\ (dl.filename = output_path(unique_id) => dl.status = 404)

\* the output was encoded, reading it back failed, the download is a 404
C3_Witness ==
    /\ pc = "done"
    /\ exc.stage = "respond"
    /\ Invoked("write_output") # {}
    /\ dl = [filename |-> output_path(unique_id), status |-> 404]

(* C4: a request without any narration form, or without any music form, *)
(* is answered 400 without any file written, copied or removed and       *)
(* without any toolkit call.                                             *)
C4_RejectedBeforeIO ==
    (pc # "idle" /\ (NeitherForm(req.audio) \/ NeitherForm(req.music))) =>
        /\ pc = "done"
        /\ resp.status = 400
        /\ fileOps = 0
        /\ calls = <<>>
        /\ unique_id = 0

\* narration supplied as valid base64, no music at all
C4_Witness ==
    /\ pc = "done"
    /\ req.audio.b64 = "valid"
    /\ NeitherForm(req.music)
    /\ resp.status = 400
    /\ fileOps = 0

(* C5 as stated: a request (supplying both sources) whose narration or   *)
(* music is given only as a stored filename that does not exist is       *)
(* answered 404 and makes no toolkit invocation.                         *)
C5_MissingFileIs404 ==
    (pc = "done"
     /\ ~NeitherForm(req.audio)
     /\ ~NeitherForm(req.music)
     /\ \/ OnlyName(req.audio) /\ req.audio.name \notin fs0
        \/ OnlyName(req.music) /\ req.music.name \notin fs0) =>
        /\ resp.status = 404
        /\ calls = <<>>

NarrationResolves ==
    \/ req.audio.b64 = "valid"
    \/ /\ OnlyName(req.audio)
       /\ req.audio.name \in fs0
       /\ req.audio.name # narration_path(unique_id)

(* C5 amended: a request with both sources supplied whose narration is   *)
(* only a stored filename that does not exist is answered 404; a request *)
(* whose narration has been resolved and whose music is only a stored    *)
(* filename that does not exist when it is looked up is answered 404; in *)
(* both cases without any toolkit invocation.                            *)
C5_MissingFileAtLookupIs404 ==
    (pc = "done"
     /\ \/ /\ ~NeitherForm(req.music)
           /\ OnlyName(req.audio)
           /\ req.audio.name \notin fs0
        \/ /\ NarrationResolves
           /\ OnlyName(req.music)
           /\ req.music.name \notin fs0 \cup {narration_path(unique_id)}) =>
        /\ resp.status = 404
        /\ calls = <<>>

\* the narration was written from base64, then the music name was missing
C5_Witness ==
    /\ pc = "done"
    /\ req.audio.b64 = "valid"
    /\ OnlyName(req.music)
    /\ req.music.name \notin fs0 \cup {narration_path(unique_id)}
    /\ fileOps = 1
    /\ resp.status = 404

\* the stage a response detail lets the client tell
StageNamed(detail) ==
    CASE detail.text.cmd = "stream_loop" -> "loop"
      [] detail.text.cmd = "anullsrc" -> "silence"
      [] detail.text.cmd = "afade" -> "fadeout"
      [] OTHER -> "unnamed"

ToolkitFailed ==
    /\ PipelineFailed
    /\ exc.stage # "respond"
    /\ exc.e.type \in {"OSError", "CalledProcessError"}

AfterLoop ==
    pc \in {"gain", "silence", "concat", "prefade", "fadeout", "mix",
            "encode", "cleanup", "respond"}

(* C7 as stated: the loop step is asked for                              *)
(* ceil(totalDuration / musicDuration) - 1 additional repeats when the   *)
(* music is shorter than totalDuration, and is not performed otherwise.  *)
C7_RepeatsAreCeilMinusOne ==
    /\ \A i \in Invoked("stream_loop") :
          calls[i].arg = <<CeilDiv(PlannedTotal, media.music) - 1>>
    /\ (EnteredPipeline /\ media.music >= PlannedTotal) =>
          Invoked("stream_loop") = {} /\ loc.loops_needed = 0

(* C7 amended: the loop step is asked for                                *)
(* floor(totalDuration / musicDuration) additional repeats when          *)
(* 0 < musicDuration < totalDuration: that is ceil(...) - 1 unless       *)
(* totalDuration is a whole multiple of musicDuration, where it is one   *)
(* more; it is not performed when musicDuration >= totalDuration.        *)
C7_RepeatsAreFloor ==
    /\ \A i \in Invoked("stream_loop") :
          /\ media.music > 0 /\ media.music < PlannedTotal
          /\ calls[i].arg = <<PlannedTotal \div media.music>>
          /\ calls[i].arg =
               IF PlannedTotal % media.music = 0
               THEN <<CeilDiv(PlannedTotal, media.music)>>
               ELSE <<CeilDiv(PlannedTotal, media.music) - 1>>
    /\ (EnteredPipeline /\ media.music >= PlannedTotal) =>
          Invoked("stream_loop") = {} /\ loc.loops_needed = 0
    /\ (AfterLoop /\ media.music < PlannedTotal) =>
          Cardinality(Invoked("stream_loop")) = 1

\* total 10 over music 5: two additional repeats, not one
C7_Witness ==
    /\ media.music = 5
    /\ PlannedTotal = 10
    /\ \E i \in Invoked("stream_loop") : calls[i].arg = <<2>>

(* C8: when 0 < musicDuration < totalDuration the extended music,        *)
(* (1 + additional repeats) * musicDuration long, is at least            *)
(* totalDuration long, so the trim never runs past the end of the music. *)
C8_ExtendedCoversTotal ==
    /\ (pc = "gain" /\ loc.extended) =>
          /\ \E i \in Invoked("stream_loop") :
                loc.music_duration = (1 + calls[i].arg[1]) * media.music
          /\ loc.music_duration >= PlannedTotal
    /\ \A i \in Invoked("subclip") :
          calls[i].arg[2] <=
            IF loc.extended THEN loc.loops_needed * media.music
            ELSE media.music

\* music 4 extended to 12 for a total of 10
C8_Witness ==
    /\ pc = "gain"
    /\ loc.extended
    /\ media.music = 4
    /\ PlannedTotal = 10
    /\ loc.music_duration = 12

(* C9: totalDuration = wait_music + narrationDuration + fade_end_at + 3  *)
(* and the fade starts at wait_music + narrationDuration + fade_end_at,  *)
(* so fadeoutStart + fadeoutDuration <= totalDuration; the trim, the     *)
(* fade pass and the forced duration use these values.                   *)
C9_TimingConsistent ==
    /\ \A i \in Invoked("subclip") : calls[i].arg = <<0, PlannedTotal>>
    /\ \A i \in Invoked("afade") :
          /\ calls[i].arg = <<PlannedFadeStart, 3>>
          /\ calls[i].arg[1] + calls[i].arg[2] <= loc.total_duration
    /\ \A i \in Invoked("set_duration") : calls[i].arg = <<PlannedTotal>>
    /\ (pc \in {"encode", "cleanup", "respond"}) =>
          /\ Invoked("subclip") # {}
          /\ Invoked("afade") # {}
          /\ Invoked("set_duration") # {}

\* narration 10, wait 3, fade delay 4, music 30: total 20, fade at 17,
\* no loop
C9_Witness ==
    /\ pc = "encode"
    /\ media = [narration |-> 10, music |-> 30]
    /\ req.wait_music = 3
    /\ req.fade_end_at = 4
    /\ loc.total_duration = 20
    /\ loc.fadeout_point = 17
    /\ ~loc.extended
    /\ \E i \in Invoked("afade") : calls[i].arg = <<17, 3>>
    /\ \E i \in Invoked("set_duration") : calls[i].arg = <<20>>

(* C10: music of duration <= 0 ends the request in a dedicated           *)
(* invalid-audio-asset error before any division by the music duration   *)
(* and before any toolkit stage.                                         *)
C10_DegenerateMusicRejected ==
    (EnteredPipeline /\ media.music <= 0) =>
        /\ exc.e.type # "ZeroDivisionError"
        /\ Invoked("stream_loop") \cup Invoked("volumex") = {}
        /\ (pc = "done" => resp.detail.text.type = "InvalidAudioAsset")
(* A mixed_<id>.mp3 that exists when a request arrives is the output of  *)
(* an earlier request that was answered 200: a request that fails        *)
(* removes its own output before it answers (C3).                        *)
ServedBefore == output_path(unique_id) \in fs0

(* C11: an output answered with a 200 exists, and every later download  *)
(* of it succeeds, whatever requests run in between, until the shutdown  *)
(* sweep; the success cleanup of the request does not delete it.         *)
C11_ServedOutputStays ==
    /\ (pc = "done" /\ resp.status = 200) =>
          /\ output_path(unique_id) \in fs
          /\ (dl.filename = output_path(unique_id) => dl.status = 200)
    /\ (pc = "done" /\ ServedBefore) =>
          /\ output_path(unique_id) \in fs
          /\ (dl.filename = output_path(unique_id) => dl.status = 200)

MixGenerated(f) ==
    f[1] \in {"narration", "music", "mixed", "extended_music", "silence",
              "music_fadeout", "music_no_fadeout"}

(* C12: no two requests generate the same identifier: the identifier a  *)
(* request generates is not the one in the name of a file that an        *)
(* earlier /mix-audio request generated, so it writes, reads and deletes *)
(* no path of an earlier request.                                        *)
C12_FreshIdentifier ==
    [][(pc = "idle" /\ pc' = "narration") =>
          \A f \in fs : MixGenerated(f) => f[2] # unique_id']_vars
\* the handlers another client can have started
OtherRequestStep ==
    \/ \E r \in Requests, m \in Media, id \in Ids : MixAudio(r, m, id)
    \/ \E id \in Ids : DownloadAudio(output_path(id))
    \/ \E id \in Ids, left \in BOOLEAN : ExtractAudio(id, left)

\* positions at which the handler is in subprocess.run or write_audiofile
BlockingStages == {"loop", "silence", "prefade", "fadeout", "encode"}

(* C13: while a /mix-audio request waits on a blocking toolkit          *)
(* invocation, another request can start and make progress.              *)
C13_OthersProgressDuringToolkit ==
    (pc \in BlockingStages) => ENABLED OtherRequestStep
\* the toolkit invocations of one pipeline run, in the order stated
StagesInOrder(extended) ==
    <<"load_narration", "load_music">>
    \o (IF extended THEN <<"stream_loop", "load_extended">> ELSE <<>>)
    \o <<"volumex", "subclip", "anullsrc", "load_silence", "concatenate",
         "write_no_fadeout", "afade", "load_fadeout", "composite",
         "set_duration", "write_output">>

IsPrefix(s, t) ==
    /\ Len(s) <= Len(t)
    /\ \A i \in 1..Len(s) : s[i] = t[i]

OpsInvoked == [i \in DOMAIN calls |-> calls[i].op]

LoopNeeded == media.music < PlannedTotal

\* the invocations so far are the stated order up to some point
InStatedOrder ==
    /\ IsPrefix(OpsInvoked, StagesInOrder(LoopNeeded))
    /\ (AfterLoop /\ LoopNeeded) => Invoked("stream_loop") # {}

\* the file a stage reads is the one the stage before it has written
ConsumesPrevious ==
    /\ (pc = "gain" /\ LoopNeeded) => temp_extended_music(unique_id) \in fs
    /\ pc = "concat" => silence_path(unique_id) \in fs
    /\ pc = "fadeout" => music_without_fadeout_path(unique_id) \in fs
    /\ pc = "mix" => music_with_fadeout_path(unique_id) \in fs
    /\ pc = "encode" => Invoked("set_duration") # {}

EncodeCompleted ==
    /\ Invoked("write_output") # {}
    /\ exc.stage \in {"none", "respond"}

DeletesIntermediate ==
    \E f \in Intermediates(unique_id) : f \in fs /\ f \notin fs'

(* C14 as stated: in every execution of the pipeline the stages are      *)
(* invoked in the order loop (only when needed), gain, trim, silence,    *)
(* concatenation, fadeout, overlay-mix with forced duration, final       *)
(* encode, each after the previous one has completed and on its output,  *)
(* and intermediates are deleted only after the final encode completed.  *)
C14_DeletionOnlyAfterEncode ==
    [][/\ InStatedOrder' /\ ConsumesPrevious'
       /\ DeletesIntermediate => EncodeCompleted]_vars

(* C14 amended: the same order and hand-over of outputs; no stage is     *)
(* invoked after one has failed; intermediates are deleted only after    *)
(* the final encode has completed or after a stage has failed.           *)
C14_OrderedAndDeletionLast ==
    [][/\ InStatedOrder' /\ ConsumesPrevious'
       /\ PipelineFailed => calls' = calls
       /\ DeletesIntermediate => (EncodeCompleted \/ PipelineFailed)]_vars

C14_Witness ==
    /\ pc = "done"
    /\ resp.status = 200
    /\ LoopNeeded
    /\ OpsInvoked = StagesInOrder(TRUE)
    /\ Intermediates(unique_id) \cap fs = {}
BothForms(src) == GivenB64(src.b64) /\ GivenName(src.name)

AnsweredWith(status, prefix) ==
    /\ pc = "done"
    /\ resp.status = status
    /\ resp.detail.prefix = prefix

(* C15: a source supplied in both forms is resolved from its base64      *)
(* form: the request is never answered 404 for that source, whether or   *)
(* not the named file exists, no copy of the named file is attempted,    *)
(* and with decodable base64 the source's file is written and the        *)
(* request goes on.                                                      *)
C15_Base64FormWins ==
    /\ BothForms(req.audio) =>
          /\ ~AnsweredWith(404, "Arquivo de audio nao encontrado")
          /\ AnsweredWith(500, "Erro do servidor") => OnlyName(req.music)
          /\ req.audio.b64 = "valid" =>
                /\ ~AnsweredWith(400, "Dados base64 invalidos para audio")
                /\ pc = "music" => narration_path(unique_id) \in fs
    /\ BothForms(req.music) =>
          /\ ~AnsweredWith(404, "Arquivo de musica nao encontrado")
          /\ AnsweredWith(500, "Erro do servidor") => OnlyName(req.audio)
          /\ req.music.b64 = "valid" =>
                /\ ~AnsweredWith(400, "Dados base64 invalidos para musica")
                /\ pc = "load" => music_path(unique_id) \in fs

C15_Witness ==
    /\ pc = "done"
    /\ resp.status = 200
    /\ BothForms(req.audio)
    /\ BothForms(req.music)
    /\ req.music.name \notin fs0
====
